---- MODULE Spec2Model ----
(***************************************************************************)
(* Geburtstagsliste: a contact export is normalised by prepare_dataframe   *)
(* and turned into a workbook by build_geburtstagsliste_excel (src/app.py).*)
(* A table is a list of column labels and a list of rows; a row holds one  *)
(* cell per column position, because labels can repeat after a rename.     *)
(***************************************************************************)
EXTENDS Integers, Sequences, FiniteSets, TLC

VARIABLES
  pc,                     \* "uploaded", "prepared", "renormalized", "done"
  target_year,            \* the year chosen in the form
  include_no_date_sheet,  \* the checkbox of the form
  df_raw,                 \* the uploaded table
  df_prepared,            \* prepare_dataframe(df_raw, target_year)
  df_again,               \* prepare_dataframe(df_prepared, target_year)
  df_with_date,           \* build: rows with a birth date, with Monat and Tag
  df_no_date,             \* build: rows without a birth date
  sheets,                 \* build: the sheets written, in order
  stats                   \* build: the statistics returned

vars == <<pc, target_year, include_no_date_sheet, df_raw, df_prepared, df_again,
          df_with_date, df_no_date, sheets, stats>>

\* The largest number of rows of an uploaded table.
MaxRows == 2

-----------------------------------------------------------------------------
(* Text.  A string is read through its characters.                          *)

CharTable ==
   ("Vorname" :> <<"V", "o", "r", "n", "a", "m", "e">>) @@
   ("Nachname" :> <<"N", "a", "c", "h", "n", "a", "m", "e">>) @@
   ("Geburtsdatum" :> <<"G", "e", "b", "u", "r", "t", "s", "d", "a", "t", "u", "m">>) @@
   ("Firma" :> <<"F", "i", "r", "m", "a">>) @@
   ("Strasse" :> <<"S", "t", "r", "a", "s", "s", "e">>) @@
   ("Strasse (Korr.)" :> <<"S", "t", "r", "a", "s", "s", "e", " ", "(", "K", "o", "r", "r", ".", ")">>) @@
   ("PLZ" :> <<"P", "L", "Z">>) @@
   ("PLZ (Korr.)" :> <<"P", "L", "Z", " ", "(", "K", "o", "r", "r", ".", ")">>) @@
   ("Ort" :> <<"O", "r", "t">>) @@
   ("Ort (Korr.)" :> <<"O", "r", "t", " ", "(", "K", "o", "r", "r", ".", ")">>) @@
   ("Korrespondenzsprache" :> <<"K", "o", "r", "r", "e", "s", "p", "o", "n", "d", "e", "n", "z", "s", "p", "r", "a", "c", "h", "e">>) @@
   ("Korresp.sprache" :> <<"K", "o", "r", "r", "e", "s", "p", ".", "s", "p", "r", "a", "c", "h", "e">>) @@
   ("Korresp. Sprache" :> <<"K", "o", "r", "r", "e", "s", "p", ".", " ", "S", "p", "r", "a", "c", "h", "e">>) @@
   ("Korrespondenz Sprache" :> <<"K", "o", "r", "r", "e", "s", "p", "o", "n", "d", "e", "n", "z", " ", "S", "p", "r", "a", "c", "h", "e">>) @@
   (" Sprache Korrespondenz " :> <<" ", "S", "p", "r", "a", "c", "h", "e", " ", "K", "o", "r", "r", "e", "s", "p", "o", "n", "d", "e", "n", "z", " ">>) @@
   ("Mitgliedschaft" :> <<"M", "i", "t", "g", "l", "i", "e", "d", "s", "c", "h", "a", "f", "t">>) @@
   ("mitgliedschaft" :> <<"m", "i", "t", "g", "l", "i", "e", "d", "s", "c", "h", "a", "f", "t">>) @@
   ("Mitglied" :> <<"M", "i", "t", "g", "l", "i", "e", "d">>) @@
   ("mitglied" :> <<"m", "i", "t", "g", "l", "i", "e", "d">>) @@
   ("Kontakte" :> <<"K", "o", "n", "t", "a", "k", "t", "e">>) @@
   ("Anredeart" :> <<"A", "n", "r", "e", "d", "e", "a", "r", "t">>) @@
   ("Telefon" :> <<"T", "e", "l", "e", "f", "o", "n">>) @@
   ("Alter 2026" :> <<"A", "l", "t", "e", "r", " ", "2", "0", "2", "6">>) @@
   ("Alter 2030" :> <<"A", "l", "t", "e", "r", " ", "2", "0", "3", "0">>) @@
   ("Monat" :> <<"M", "o", "n", "a", "t">>) @@
   ("Tag" :> <<"T", "a", "g">>) @@
   ("Geburtsdatum (TT.MM.JJJJ)" :> <<"G", "e", "b", "u", "r", "t", "s", "d", "a", "t", "u", "m", " ", "(", "T", "T", ".", "M", "M", ".", "J", "J", "J", "J", ")">>) @@
   ("_geburtstag_sort" :> <<"_", "g", "e", "b", "u", "r", "t", "s", "t", "a", "g", "_", "s", "o", "r", "t">>) @@
   ("Info" :> <<"I", "n", "f", "o">>) @@
   ("Anna" :> <<"A", "n", "n", "a">>) @@
   ("Bruno" :> <<"B", "r", "u", "n", "o">>) @@
   ("Carla" :> <<"C", "a", "r", "l", "a">>) @@
   ("Dora" :> <<"D", "o", "r", "a">>) @@
   ("Muster" :> <<"M", "u", "s", "t", "e", "r">>) @@
   ("Keine Daten vorhanden" :> <<"K", "e", "i", "n", "e", " ", "D", "a", "t", "e", "n", " ", "v", "o", "r", "h", "a", "n", "d", "e", "n">>) @@
   ("Aktivmitglied" :> <<"A", "k", "t", "i", "v", "m", "i", "t", "g", "l", "i", "e", "d">>) @@
   ("Ehrenmitglied seit 1990" :> <<"E", "h", "r", "e", "n", "m", "i", "t", "g", "l", "i", "e", "d", " ", "s", "e", "i", "t", " ", "1", "9", "9", "0">>) @@
   ("ehrenmitglied" :> <<"e", "h", "r", "e", "n", "m", "i", "t", "g", "l", "i", "e", "d">>) @@
   ("Prinzenrolle 2015" :> <<"P", "r", "i", "n", "z", "e", "n", "r", "o", "l", "l", "e", " ", "2", "0", "1", "5">>) @@
   ("Ehrenpräsident" :> <<"E", "h", "r", "e", "n", "p", "r", "ä", "s", "i", "d", "e", "n", "t">>) @@
   ("Ehrenmitglied" :> <<"E", "h", "r", "e", "n", "m", "i", "t", "g", "l", "i", "e", "d">>) @@
   ("Prinzenrolle" :> <<"P", "r", "i", "n", "z", "e", "n", "r", "o", "l", "l", "e">>) @@
   ("korrespondenzsprache" :> <<"k", "o", "r", "r", "e", "s", "p", "o", "n", "d", "e", "n", "z", "s", "p", "r", "a", "c", "h", "e">>) @@
   ("korrespsprache" :> <<"k", "o", "r", "r", "e", "s", "p", "s", "p", "r", "a", "c", "h", "e">>) @@
   ("korresp" :> <<"k", "o", "r", "r", "e", "s", "p">>) @@
   ("korrespondenz" :> <<"k", "o", "r", "r", "e", "s", "p", "o", "n", "d", "e", "n", "z">>) @@
   ("sprache" :> <<"s", "p", "r", "a", "c", "h", "e">>) @@
   ("unbekannt" :> <<"u", "n", "b", "e", "k", "a", "n", "n", "t">>) @@
   ("03.07.1950" :> <<"0", "3", ".", "0", "7", ".", "1", "9", "5", "0">>) @@
   ("07-03" :> <<"0", "7", "-", "0", "3">>) @@
   ("10.10.1926" :> <<"1", "0", ".", "1", "0", ".", "1", "9", "2", "6">>) @@
   ("10-10" :> <<"1", "0", "-", "1", "0">>) @@
   ("03.07.1926" :> <<"0", "3", ".", "0", "7", ".", "1", "9", "2", "6">>) @@
   ("10.07.2026" :> <<"1", "0", ".", "0", "7", ".", "2", "0", "2", "6">>) @@
   ("07-10" :> <<"0", "7", "-", "1", "0">>)

Chars(s) == CharTable[s]

UpperCase == <<"A","B","C","D","E","F","G","H","I","J","K","L","M","N","O","P",
               "Q","R","S","T","U","V","W","X","Y","Z","Ä","Ö","Ü">>
LowerCase == <<"a","b","c","d","e","f","g","h","i","j","k","l","m","n","o","p",
               "q","r","s","t","u","v","w","x","y","z","ä","ö","ü">>

\* str.lower(), one character
lower_char(c) ==
  IF \E i \in DOMAIN UpperCase : UpperCase[i] = c
  THEN LowerCase[CHOOSE i \in DOMAIN UpperCase : UpperCase[i] = c]
  ELSE c

\* str.lower()
lower(cs) == [i \in DOMAIN cs |-> lower_char(cs[i])]

\* str.strip(): blanks at both ends go
strip(cs) ==
  LET keep == {i \in DOMAIN cs : cs[i] # " "}
  IN IF keep = {} THEN <<>>
     ELSE LET lo == CHOOSE i \in keep : \A j \in keep : i <= j
              hi == CHOOSE i \in keep : \A j \in keep : j <= i
          IN SubSeq(cs, lo, hi)

\* str.replace(" ", "")
remove_blanks(cs) == SelectSeq(cs, LAMBDA c : c # " ")

\* Python's  sub in cs
contains(sub, cs) ==
  \E i \in 0..(Len(cs) - Len(sub)) : SubSeq(cs, i + 1, i + Len(sub)) = sub

\* The characters of the sort key "%m-%d", in code point order.
KeyAlphabet == <<"-","0","1","2","3","4","5","6","7","8","9">>
ord(c) == CHOOSE i \in DOMAIN KeyAlphabet : KeyAlphabet[i] = c

\* Python's  a < b  on strings: the first differing character decides, a
\* proper prefix is smaller.
str_less(a, b) ==
  \/ /\ Len(a) < Len(b)
     /\ SubSeq(b, 1, Len(a)) = a
  \/ \E i \in 1..Len(a) :
       /\ i <= Len(b)
       /\ SubSeq(a, 1, i - 1) = SubSeq(b, 1, i - 1)
       /\ ord(a[i]) < ord(b[i])

Digits == <<"0","1","2","3","4","5","6","7","8","9">>
is_digit(c) == \E i \in DOMAIN Digits : Digits[i] = c
digit(c) == (CHOOSE i \in DOMAIN Digits : Digits[i] = c) - 1

\* "%02d"
pad2(v) == IF v < 10 THEN "0" \o ToString(v) ELSE ToString(v)

-----------------------------------------------------------------------------
(* Cells.  k: "null" (NaN, NaT, an empty cell), "str", "ts" (a Timestamp),  *)
(* "num".                                                                   *)

NaN == [k |-> "null", s |-> "", y |-> 0, m |-> 0, d |-> 0, n |-> 0]
Str(t) == [k |-> "str", s |-> t, y |-> 0, m |-> 0, d |-> 0, n |-> 0]
Timestamp(yy, mm, dd) == [k |-> "ts", s |-> "", y |-> yy, m |-> mm, d |-> dd, n |-> 0]
Num(v) == [k |-> "num", s |-> "", y |-> 0, m |-> 0, d |-> 0, n |-> v]

isna(c) == c.k = "null"
notna(c) == ~isna(c)

is_leap(yy) == (yy % 4 = 0 /\ yy % 100 # 0) \/ yy % 400 = 0
days_in_month(yy, mm) ==
  IF mm = 2 THEN (IF is_leap(yy) THEN 29 ELSE 28)
  ELSE IF mm \in {4, 6, 9, 11} THEN 30 ELSE 31

\* A date text read day first: "03.07.1950" is the 3rd of July.  Text that is
\* not day, month, year with one separator, or names no calendar day, is NaT.
parse_dayfirst(cs) ==
  IF /\ Len(cs) = 10
     /\ cs[3] \in {".", "/", "-"}
     /\ cs[6] = cs[3]
     /\ \A i \in {1, 2, 4, 5, 7, 8, 9, 10} : is_digit(cs[i])
  THEN LET a == 10 * digit(cs[1]) + digit(cs[2])
           b == 10 * digit(cs[4]) + digit(cs[5])
           c == 1000 * digit(cs[7]) + 100 * digit(cs[8])
                  + 10 * digit(cs[9]) + digit(cs[10])
       IN IF b \in 1..12 /\ a \in 1..days_in_month(c, b)
          THEN Timestamp(c, b, a)
          ELSE NaN
  ELSE NaN

\* pd.to_datetime(..., errors="coerce", dayfirst=True), one cell.  A number
\* counts nanoseconds from 1970-01-01.
to_datetime(c) ==
  CASE c.k = "ts" -> c
    [] c.k = "str" -> parse_dayfirst(Chars(c.s))
    [] c.k = "num" -> Timestamp(1970, 1, 1)
    [] OTHER -> NaN

\* .dt.strftime("%m-%d"), one cell
strftime_md(c) == IF isna(c) THEN NaN ELSE Str(pad2(c.m) \o "-" \o pad2(c.d))

\* .dt.strftime("%d.%m.%Y"), one cell
strftime_dmY(c) ==
  IF isna(c) THEN NaN
  ELSE Str(pad2(c.d) \o "." \o pad2(c.m) \o "." \o ToString(c.y))

\* cell_less turned round, as a sort with ascending=False compares
cell_less_descending(a, b) ==
  IF a.k = "num" THEN b.n < a.n ELSE str_less(Chars(b.s), Chars(a.s))

\* The order sort_values compares two non-null cells of one column by.
cell_less(a, b) ==
  IF a.k = "num" THEN a.n < b.n ELSE str_less(Chars(a.s), Chars(b.s))

-----------------------------------------------------------------------------
(* Tables.  rows[i] = [rid, cells]: cells[j] belongs to columns[j]; rid is  *)
(* the row's place in the uploaded table and only tells rows apart.         *)

EmptyFrame == [columns |-> <<>>, rows |-> <<>>]

Idx(n) == [i \in 1..n |-> i]
Take(seq, idxs) == [j \in DOMAIN idxs |-> seq[idxs[j]]]

\* c in df.columns
HasColumn(df, c) == \E i \in DOMAIN df.columns : df.columns[i] = c

\* the places of label c
Positions(cols, c) == SelectSeq(Idx(Len(cols)), LAMBDA i : cols[i] = c)

\* df[c], a label that occurs once
Column(df, c) ==
  [r \in DOMAIN df.rows |-> df.rows[r].cells[Positions(df.columns, c)[1]]]

\* df[c] = vals: an existing column is overwritten in place, a new one is
\* added at the end
SetColumn(df, c, vals) ==
  IF HasColumn(df, c)
  THEN [df EXCEPT !.rows =
         [r \in DOMAIN df.rows |->
           [df.rows[r] EXCEPT !.cells =
             [i \in DOMAIN df.columns |->
               IF df.columns[i] = c THEN vals[r] ELSE df.rows[r].cells[i]]]]]
  ELSE [columns |-> Append(df.columns, c),
        rows |-> [r \in DOMAIN df.rows |->
                   [df.rows[r] EXCEPT !.cells = Append(df.rows[r].cells, vals[r])]]]

\* the columns at the places idxs, in that order
TakeColumns(df, idxs) ==
  [columns |-> Take(df.columns, idxs),
   rows |-> [r \in DOMAIN df.rows |->
              [df.rows[r] EXCEPT !.cells = Take(df.rows[r].cells, idxs)]]]

\* df.drop(columns=names, errors="ignore")
DropColumns(df, names) ==
  TakeColumns(df, SelectSeq(Idx(Len(df.columns)),
                            LAMBDA i : df.columns[i] \notin names))

RECURSIVE AllPositions(_, _)
AllPositions(cols, labels) ==
  IF labels = <<>> THEN <<>>
  ELSE Positions(cols, Head(labels)) \o AllPositions(cols, Tail(labels))

\* df[labels]: every column carrying a requested label is taken, so a label
\* that occurs twice in df yields two columns
SelectColumns(df, labels) == TakeColumns(df, AllPositions(df.columns, labels))

\* df[mask], the mask given as the places of the rows to keep
FilterRows(df, keep) == [df EXCEPT !.rows = Take(df.rows, keep)]

Perms(n) == {p \in [1..n -> 1..n] : \A i, j \in 1..n : i # j => p[i] # p[j]}

\* The orders sort_values(by) may leave the non-null rows in, given as lists
\* of row places.  kind="quicksort" is the default and is not stable: rows
\* with equal keys may come out in any order.
QuicksortOrders(rows, at) ==
  LET nn == SelectSeq(Idx(Len(rows)), LAMBDA i : notna(rows[i].cells[at]))
  IN {Take(nn, p) : p \in {q \in Perms(Len(nn)) :
        \A i \in 1..(Len(nn) - 1) :
          ~cell_less(rows[nn[q[i + 1]]].cells[at], rows[nn[q[i]]].cells[at])}}

\* df.sort_values(by): ascending, null keys last (na_position="last") in the
\* order they had.  The set of tables the call may return.
sort_values(df, by) ==
  LET at == Positions(df.columns, by)[1]
      na == SelectSeq(Idx(Len(df.rows)), LAMBDA i : isna(df.rows[i].cells[at]))
  IN {[df EXCEPT !.rows = Take(df.rows, o \o na)] :
        o \in QuicksortOrders(df.rows, at)}

-----------------------------------------------------------------------------
(* prepare_dataframe                                                        *)

\* f"Alter {target_year}"
AlterCol(year) == "Alter " \o ToString(year)

rename_map ==
  ("Strasse (Korr.)" :> "Strasse") @@
  ("PLZ (Korr.)" :> "PLZ") @@
  ("Ort (Korr.)" :> "Ort") @@
  ("Korresp.sprache" :> "Korrespondenzsprache") @@
  ("Korresp. Sprache" :> "Korrespondenzsprache") @@
  ("Korrespondenz Sprache" :> "Korrespondenzsprache")

\* df.rename(columns=existing_rename): every label that is a key is replaced
rename(df) ==
  [df EXCEPT !.columns =
    [i \in DOMAIN df.columns |->
      IF df.columns[i] \in DOMAIN rename_map
      THEN rename_map[df.columns[i]] ELSE df.columns[i]]]

\* target_year - df["Geburtsdatum"].dt.year, one cell
age(c, year) == IF isna(c) THEN NaN ELSE Num(year - c.y)

\* lines 31-46: drop the unneeded columns, then rename
harmonize(df) == rename(DropColumns(df, {"Kontakte", "Anredeart"}))

\* lines 18-29 after the sort: drop the sort key, add the age
with_age(df, year) ==
  LET d == DropColumns(df, {"_geburtstag_sort"})
  IN SetColumn(d, AlterCol(year),
               [r \in DOMAIN d.rows |-> age(Column(d, "Geburtsdatum")[r], year)])

\* The tables prepare_dataframe(df, year) may return.
prepare_dataframe(df, year) ==
  IF HasColumn(df, "Geburtsdatum")
  THEN LET parsed == SetColumn(df, "Geburtsdatum",
                       [r \in DOMAIN df.rows |->
                         to_datetime(Column(df, "Geburtsdatum")[r])])
           keyed == SetColumn(parsed, "_geburtstag_sort",
                      [r \in DOMAIN df.rows |->
                        strftime_md(Column(parsed, "Geburtsdatum")[r])])
       IN {harmonize(with_age(s, year)) : s \in sort_values(keyed, "_geburtstag_sort")}
  ELSE {harmonize(df)}

-----------------------------------------------------------------------------
(* build_geburtstagsliste_excel                                             *)

\* DataFrame.empty: no rows or no columns
empty(df) == Len(df.columns) = 0 \/ Len(df.rows) = 0

\* c in labels
In(c, labels) == \E i \in DOMAIN labels : labels[i] = c

\* labels.index(c), counted from 0
index(labels, c) == (CHOOSE i \in DOMAIN labels :
                       labels[i] = c /\ \A j \in 1..(i - 1) : labels[j] # c) - 1

\* list.insert(at, c), at counted from 0
insert(labels, at, c) ==
  IF at >= Len(labels) THEN Append(labels, c)
  ELSE SubSeq(labels, 1, at) \o <<c>> \o SubSeq(labels, at + 1, Len(labels))

\* [c for c in wanted if c in df.columns]
present(wanted, df) == SelectSeq(wanted, LAMBDA c : HasColumn(df, c))

monat_namen ==
  <<"Januar", "Februar", "März", "April", "Mai", "Juni", "Juli", "August",
    "September", "Oktober", "November", "Dezember">>

rollen == <<"Ehrenmitglied", "Ehrenpräsident", "Prinzenrolle">>

\* lines 65-74: the rows without and with a birth date; the latter get the
\* columns Monat and Tag.  Without the column both groups are pd.DataFrame().
no_date(df) ==
  IF HasColumn(df, "Geburtsdatum")
  THEN LET at == Positions(df.columns, "Geburtsdatum")[1]
       IN FilterRows(df, SelectSeq(Idx(Len(df.rows)),
                                   LAMBDA r : isna(df.rows[r].cells[at])))
  ELSE EmptyFrame

with_date(df) ==
  IF HasColumn(df, "Geburtsdatum")
  THEN LET at == Positions(df.columns, "Geburtsdatum")[1]
           d == FilterRows(df, SelectSeq(Idx(Len(df.rows)),
                                         LAMBDA r : notna(df.rows[r].cells[at])))
           m == SetColumn(d, "Monat",
                  [r \in DOMAIN d.rows |-> Num(Column(d, "Geburtsdatum")[r].m)])
       IN SetColumn(m, "Tag",
            [r \in DOMAIN d.rows |-> Num(Column(d, "Geburtsdatum")[r].d)])
  ELSE EmptyFrame

\* line 102: df_with_date[df_with_date["Monat"] == monat]
month_bucket(dfw, monat) ==
  IF HasColumn(dfw, "Monat")
  THEN LET at == Positions(dfw.columns, "Monat")[1]
       IN FilterRows(dfw, SelectSeq(Idx(Len(dfw.rows)),
                                    LAMBDA r : dfw.rows[r].cells[at] = Num(monat)))
  ELSE EmptyFrame

\* lines 117-122: the membership column, <<label>> or <<>> for None
find_mitgliedschaft_col(df) ==
  LET names == <<"Mitgliedschaft", "mitgliedschaft", "Mitglied", "mitglied">>
      found == SelectSeq(names, LAMBDA c : HasColumn(df, c))
  IN IF found = <<>> THEN <<>> ELSE <<Head(found)>>

\* lines 127-133 (and 239-245): whether a label is taken for the
\* correspondence language
is_corr_lang(col) ==
  LET col_norm == remove_blanks(lower(strip(Chars(col))))
  IN \/ col_norm \in {Chars("korrespondenzsprache"), Chars("korrespsprache")}
     \/ /\ \/ contains(Chars("korresp"), col_norm)
           \/ contains(Chars("korrespondenz"), col_norm)
        /\ contains(Chars("sprache"), col_norm)

\* lines 124-133: the first such label in column order, <<label>> or <<>>
find_corr_lang_col(df) ==
  LET found == SelectSeq(df.columns, is_corr_lang)
  IN IF found = <<>> THEN <<>> ELSE <<Head(found)>>

\* lines 135-158: the labels of a month sheet
month_sheet_cols(df_monat, year) ==
  LET mitgliedschaft_col == find_mitgliedschaft_col(df_monat)
      corr_lang_col == find_corr_lang_col(df_monat)
      base == <<"Vorname", "Nachname", "Geburtsdatum (TT.MM.JJJJ)", "Firma",
                "Strasse", "PLZ", "Ort", AlterCol(year)>>
      with_mg == base \o mitgliedschaft_col
      desired_cols == IF corr_lang_col # <<>>
                      THEN insert(with_mg, 7, corr_lang_col[1]) ELSE with_mg
      kept == present(desired_cols, df_monat)
      sheet_cols == IF corr_lang_col # <<>> /\ ~In(corr_lang_col[1], kept)
                    THEN kept \o corr_lang_col ELSE kept
  IN IF sheet_cols = <<>> THEN df_monat.columns ELSE sheet_cols

\* lines 184-198: the rule for round birthdays, on the column the letter
\* chr(ord("A") + alter_col_idx) names
round_rules(sheet_cols, n_rows, year) ==
  IF In(AlterCol(year), sheet_cols)
  THEN LET alter_col_idx == index(sheet_cols, AlterCol(year))
       IN <<[kind |-> "round", role |-> "",
             first_col |-> alter_col_idx, last_col |-> alter_col_idx,
             first_row |-> 2, last_row |-> n_rows + 1,
             ref_col |-> alter_col_idx]>>
  ELSE <<>>

\* lines 207-220 (and 277-290): one rule per role, on A2 to the letter of
\* len(sheet_cols) - 1, reading the letter of the membership column
role_rules(sheet_cols, n_rows, mg_col) ==
  IF mg_col # <<>> /\ In(mg_col[1], sheet_cols)
  THEN [i \in DOMAIN rollen |->
         [kind |-> "role", role |-> rollen[i],
          first_col |-> 0, last_col |-> Len(sheet_cols) - 1,
          first_row |-> 2, last_row |-> n_rows + 1,
          ref_col |-> index(sheet_cols, mg_col[1])]]
  ELSE <<>>

\* lines 200-205: the date format of the display column
date_columns(sheet_cols) ==
  IF In("Geburtsdatum (TT.MM.JJJJ)", sheet_cols)
  THEN <<index(sheet_cols, "Geburtsdatum (TT.MM.JJJJ)")>> ELSE <<>>

\* lines 111-220: the sheet of one month from its rows sorted by Tag
month_sheet(sorted, monat, year) ==
  LET df_monat == SetColumn(sorted, "Geburtsdatum (TT.MM.JJJJ)",
                    [r \in DOMAIN sorted.rows |->
                      strftime_dmY(Column(sorted, "Geburtsdatum")[r])])
      sheet_cols == month_sheet_cols(df_monat, year)
      export_df == SelectColumns(df_monat, sheet_cols)
  IN [name |-> monat_namen[monat],
      sheet_cols |-> sheet_cols,
      columns |-> export_df.columns,
      rows |-> export_df.rows,
      date_cols |-> date_columns(sheet_cols),
      rules |-> round_rules(sheet_cols, Len(export_df.rows), year)
                 \o role_rules(sheet_cols, Len(export_df.rows),
                               find_mitgliedschaft_col(df_monat))]

\* lines 101-220: the lists of month sheets the loop may write from month
\* monat on; a month without rows writes none
RECURSIVE month_sheets(_, _, _)
month_sheets(dfw, monat, year) ==
  IF monat > 12 THEN {<<>>}
  ELSE LET df_monat == month_bucket(dfw, monat)
           rest == month_sheets(dfw, monat + 1, year)
       IN IF empty(df_monat) THEN rest
          ELSE {<<month_sheet(s, monat, year)>> \o r :
                  s \in sort_values(df_monat, "Tag"), r \in rest}

\* lines 95-100: the guard of the loop over the months
all_month_sheets(dfw, year) ==
  IF /\ ~empty(dfw)
     /\ HasColumn(dfw, "Monat")
     /\ \E r \in DOMAIN dfw.rows : notna(Column(dfw, "Monat")[r])
  THEN month_sheets(dfw, 1, year)
  ELSE {<<>>}

RECURSIVE append_missing(_, _)
\* lines 255-257: for c in columns: if c not in sheet_cols: append
append_missing(sheet_cols, columns) ==
  IF columns = <<>> THEN sheet_cols
  ELSE append_missing(IF In(Head(columns), sheet_cols) THEN sheet_cols
                      ELSE Append(sheet_cols, Head(columns)),
                      Tail(columns))

\* lines 226-261: the labels of the sheet of the rows without a birth date
no_date_sheet_cols(dfn) ==
  LET base == <<"Vorname", "Nachname", "Firma", "Strasse", "PLZ", "Ort",
                "Mitgliedschaft">>
      corr_lang_col_no_date == find_corr_lang_col(dfn)
      desired_cols_no_date == IF corr_lang_col_no_date # <<>>
                              THEN insert(base, 6, corr_lang_col_no_date[1])
                              ELSE base
      sheet_cols_no_date == append_missing(present(desired_cols_no_date, dfn),
                                           dfn.columns)
  IN IF sheet_cols_no_date = <<>> THEN dfn.columns ELSE sheet_cols_no_date

\* lines 222-290: the sheet Ohne_Geburtsdatum, if it is written
no_date_sheets(dfn, include) ==
  IF include /\ ~empty(dfn)
  THEN LET sheet_cols == no_date_sheet_cols(dfn)
           export_no_date == SelectColumns(dfn, sheet_cols)
       IN <<[name |-> "Ohne_Geburtsdatum",
             sheet_cols |-> sheet_cols,
             columns |-> export_no_date.columns,
             rows |-> export_no_date.rows,
             date_cols |-> <<>>,
             rules |-> role_rules(sheet_cols, Len(export_no_date.rows),
                                  IF In("Mitgliedschaft", sheet_cols)
                                  THEN <<"Mitgliedschaft">> ELSE <<>>)]>>
  ELSE <<>>

\* placeholder_sheets without the test of df_no_date.empty
placeholder_sheets_option_only(dfw, dfn, include) ==
  IF empty(dfw) /\ ~include
  THEN <<[name |-> "Keine_Daten",
          sheet_cols |-> <<"Info">>,
          columns |-> <<"Info">>,
          rows |-> <<[rid |-> 0, cells |-> <<Str("Keine Daten vorhanden")>>]>>,
          date_cols |-> <<>>,
          rules |-> <<>>]>>
  ELSE <<>>

\* lines 292-296: the sheet Keine_Daten, if it is written
placeholder_sheets(dfw, dfn, include) ==
  IF empty(dfw) /\ (~include \/ empty(dfn))
  THEN <<[name |-> "Keine_Daten",
          sheet_cols |-> <<"Info">>,
          columns |-> <<"Info">>,
          rows |-> <<[rid |-> 0, cells |-> <<Str("Keine Daten vorhanden")>>]>>,
          date_cols |-> <<>>,
          rules |-> <<>>]>>
  ELSE <<>>

\* count_notna without the null test, as len(df[c]) counts
count_notna_every_row(df, c) == Len(df.rows)

\* int(df[c].notna().sum())
count_notna(df, c) == Cardinality({r \in DOMAIN df.rows : notna(Column(df, c)[r])})
\* int(df[c].isna().sum())
count_isna(df, c) == Cardinality({r \in DOMAIN df.rows : isna(Column(df, c)[r])})

\* lines 298-304: the statistics, as the set of the dict's items
statistics(df) ==
  (IF HasColumn(df, "Vorname")
   THEN {<<"anzahl_namen", count_notna(df, "Vorname")>>} ELSE {})
  \cup
  (IF HasColumn(df, "Geburtsdatum")
   THEN {<<"anzahl_geburtsdaten", count_notna(df, "Geburtsdatum")>>,
         <<"anzahl_fehlende_geburtsdaten", count_isna(df, "Geburtsdatum")>>}
   ELSE {})

-----------------------------------------------------------------------------
(* The written workbook as Excel shows it.  to_excel(index=False) puts the  *)
(* labels in row 1 and data row r in row r + 1; column c (from 0) has the   *)
(* letter chr(ord("A") + c).                                                *)

\* =AND(MOD(X2,10)=0,NOT(ISBLANK(X2))) on one cell: true of a number that
\* is a multiple of 10; an empty cell is blank, text makes MOD an error.
round_criteria(cell) == cell.k = "num" /\ cell.n % 10 = 0

\* =ISNUMBER(SEARCH("rolle", $X2)) on one cell: SEARCH finds the text
\* anywhere in the cell and takes no account of case; an empty cell or a
\* number holds no role.
role_criteria(rolle, cell) ==
  cell.k = "str" /\ contains(lower(Chars(rolle)), lower(Chars(cell.s)))

\* Whether rule f formats the cell in data row r (from 1), column c (from 0).
\* The criteria is written for the top left cell of the range: the round
\* rule reads the cell itself (X2 is relative), a role rule reads column
\* ref_col of the same row ($X2 fixes the column).
paints(sh, f, r, c) ==
  /\ f.first_col <= c /\ c <= f.last_col
  /\ f.first_row <= r + 1 /\ r + 1 <= f.last_row
  /\ IF f.kind = "round"
     THEN round_criteria(sh.rows[r].cells[c + 1])
     ELSE role_criteria(f.role, sh.rows[r].cells[f.ref_col + 1])

\* the green format of a round birthday
green(sh, r, c) ==
  \E i \in DOMAIN sh.rules : sh.rules[i].kind = "round" /\ paints(sh, sh.rules[i], r, c)

\* the yellow format of an honorary role
yellow(sh, r, c) ==
  \E i \in DOMAIN sh.rules : sh.rules[i].kind = "role" /\ paints(sh, sh.rules[i], r, c)

-----------------------------------------------------------------------------
(* The uploaded tables.                                                     *)

TargetYears == {2026, 2030}

Headers ==
  { <<"Vorname", "Nachname", "Geburtsdatum", "Firma", "Strasse", "PLZ", "Ort",
      "Korrespondenzsprache", "Mitgliedschaft">>,
    <<"Kontakte", "Anredeart", "Vorname", "Nachname", "Geburtsdatum",
      "Strasse (Korr.)", "PLZ (Korr.)", "Ort (Korr.)", "Korresp.sprache", "Mitglied">>,
    <<"Vorname", "Nachname", "Ort", "Mitgliedschaft">>,
    <<"Vorname", "Geburtsdatum", "Strasse", "Strasse (Korr.)", "PLZ", "Mitgliedschaft">>,
    <<"Geburtsdatum", "Korresp. Sprache", "Korrespondenz Sprache", "Vorname">>,
    <<"Geburtsdatum">>,
    <<"Telefon", "mitglied", "mitgliedschaft", " Sprache Korrespondenz ",
      "Geburtsdatum">>,
    <<"Alter 2026", "Korrespondenzsprache", "Vorname", "Geburtsdatum", "Ort">>,
    <<"Telefon">>,
    <<>> }

Persons ==
  { [vorname |-> Str("Anna"), geb |-> Str("03.07.1950"), mit |-> Str("Aktivmitglied")],
    [vorname |-> Str("Bruno"), geb |-> Timestamp(1926, 10, 10),
     mit |-> Str("Ehrenmitglied seit 1990")],
    [vorname |-> NaN, geb |-> Timestamp(1926, 7, 3), mit |-> Str("ehrenmitglied")],
    [vorname |-> Str("Carla"), geb |-> Str("unbekannt"), mit |-> Str("Prinzenrolle 2015")],
    [vorname |-> Str("Dora"), geb |-> NaN, mit |-> NaN],
    [vorname |-> Str("Anna"), geb |-> Str("10.07.2026"), mit |-> Str("Ehrenpräsident")] }

\* the cell a person has under a column label
CellOf(p, col) ==
  CASE col = "Vorname" -> p.vorname
    [] col = "Geburtsdatum" -> p.geb
    [] col \in {"Mitgliedschaft", "mitgliedschaft", "Mitglied", "mitglied"} -> p.mit
    [] col \in {"PLZ", "PLZ (Korr.)"} -> Num(8000)
    [] col \in {"Alter 2026", "Alter 2030"} -> Num(50)
    [] OTHER -> Str("Muster")

\* pd.read_excel: the table with header h and one row per person of ps
read_excel(h, ps) ==
  [columns |-> h,
   rows |-> [r \in DOMAIN ps |->
              [rid |-> r, cells |-> [j \in DOMAIN h |-> CellOf(ps[r], h[j])]]]]

Init ==
  /\ pc = "uploaded"
  /\ target_year \in TargetYears
  /\ include_no_date_sheet \in BOOLEAN
  /\ \E h \in Headers, n \in 0..MaxRows :
       /\ h = <<>> => n = 0
       /\ \E ps \in [1..n -> Persons] : df_raw = read_excel(h, ps)
  /\ df_prepared = EmptyFrame
  /\ df_again = EmptyFrame
  /\ df_with_date = EmptyFrame
  /\ df_no_date = EmptyFrame
  /\ sheets = <<>>
  /\ stats = {}

\* main, line 486: df_prepared = prepare_dataframe(df_raw, target_year)
Prepare ==
  /\ pc = "uploaded"
  /\ df_prepared' \in prepare_dataframe(df_raw, target_year)
  /\ pc' = "prepared"
  /\ UNCHANGED <<target_year, include_no_date_sheet, df_raw, df_again,
                 df_with_date, df_no_date, sheets, stats>>

\* prepare_dataframe applied to its own result
PrepareAgain ==
  /\ pc = "prepared"
  /\ df_again' \in prepare_dataframe(df_prepared, target_year)
  /\ pc' = "renormalized"
  /\ UNCHANGED <<target_year, include_no_date_sheet, df_raw, df_prepared,
                 df_with_date, df_no_date, sheets, stats>>

\* main, lines 493-499: build_geburtstagsliste_excel(df_prepared, ...)
Build ==
  /\ pc = "prepared"
  /\ df_no_date' = no_date(df_prepared)
  /\ df_with_date' = with_date(df_prepared)
  /\ \E months \in all_month_sheets(with_date(df_prepared), target_year) :
       sheets' = months
                 \o no_date_sheets(no_date(df_prepared), include_no_date_sheet)
                 \o placeholder_sheets(with_date(df_prepared), no_date(df_prepared),
                                       include_no_date_sheet)
  /\ stats' = statistics(df_prepared)
  /\ pc' = "done"
  /\ UNCHANGED <<target_year, include_no_date_sheet, df_raw, df_prepared, df_again>>

Next == Prepare \/ PrepareAgain \/ Build

Spec == Init /\ [][Next]_vars

-----------------------------------------------------------------------------
(* Properties.                                                              *)

Distinct(labels) ==
  \A i, j \in DOMAIN labels : i # j => labels[i] # labels[j]

\* what a table shows: its labels and its cells, row by row
Content(df) ==
  [columns |-> df.columns, cells |-> [r \in DOMAIN df.rows |-> df.rows[r].cells]]

IsMonthSheet(sh) == In(sh.name, monat_namen)
IsNoDateSheet(sh) == sh.name = "Ohne_Geburtsdatum"
IsPlaceholder(sh) == sh.name = "Keine_Daten"
Cols0(sh) == 0..(Len(sh.columns) - 1)

\* the birth date and the age of row r of the normalized table; no column,
\* no value
Birth(r) ==
  IF HasColumn(df_prepared, "Geburtsdatum")
  THEN Column(df_prepared, "Geburtsdatum")[r] ELSE NaN
Age(r) ==
  IF HasColumn(df_prepared, AlterCol(target_year))
  THEN Column(df_prepared, AlterCol(target_year))[r] ELSE NaN

\* the place in the normalized table of the row rid
PlaceOf(rid) == CHOOSE r \in DOMAIN df_prepared.rows : df_prepared.rows[r].rid = rid

\* (month, day) of a is at most that of b
MonthDayLeq(a, b) == a.m < b.m \/ (a.m = b.m /\ a.d <= b.d)

\* how often the row rid occurs in the month buckets and the undated group
Occurrences(rid) ==
  Cardinality({<<mo, i>> \in (1..12) \X (1..Len(df_with_date.rows)) :
                 /\ i \in DOMAIN month_bucket(df_with_date, mo).rows
                 /\ month_bucket(df_with_date, mo).rows[i].rid = rid})
  + Cardinality({i \in DOMAIN df_no_date.rows : df_no_date.rows[i].rid = rid})

InNoDateGroup(rid) == \E i \in DOMAIN df_no_date.rows : df_no_date.rows[i].rid = rid
InMonthSheet(rid) ==
  \E s \in DOMAIN sheets :
    /\ IsMonthSheet(sheets[s])
    /\ \E i \in DOMAIN sheets[s].rows : sheets[s].rows[i].rid = rid

\* C1: normalizing a normalized table changes nothing: same labels in the
\* same order, same rows in the same order, same cells.
C1_Idempotent ==
  pc = "renormalized" => Content(df_again) = Content(df_prepared)

\* C1, what the second pass does keep: the labels, the rows as a set, and
\* the (month, day) at every place; only rows with one birthday may swap.
C1_IdempotentUpToTies ==
  pc = "renormalized" =>
    /\ df_again.columns = df_prepared.columns
    /\ {df_again.rows[r] : r \in DOMAIN df_again.rows}
         = {df_prepared.rows[r] : r \in DOMAIN df_prepared.rows}
    /\ Len(df_again.rows) = Len(df_prepared.rows)
    /\ \A r \in DOMAIN df_prepared.rows :
         \/ df_again.rows[r] = df_prepared.rows[r]
         \/ /\ notna(Birth(r))
            /\ \E q \in DOMAIN df_prepared.rows :
                 /\ df_again.rows[r] = df_prepared.rows[q]
                 /\ Birth(q).m = Birth(r).m /\ Birth(q).d = Birth(r).d

\* C2: every row of the normalized table is in exactly one of the 12 month
\* buckets and the undated group, also when there is no birth date column.
C2_Partition ==
  pc = "done" =>
    \A r \in DOMAIN df_prepared.rows : Occurrences(df_prepared.rows[r].rid) = 1

\* C2 for the tables that have the birth date column.
C2_PartitionWithColumn ==
  (pc = "done" /\ HasColumn(df_prepared, "Geburtsdatum")) =>
    \A r \in DOMAIN df_prepared.rows : Occurrences(df_prepared.rows[r].rid) = 1

\* C3: the workbook has a sheet; Keine_Daten is written exactly when no
\* month sheet and no Ohne_Geburtsdatum sheet is, the latter being left out
\* exactly when the option is off or the undated group is empty; it is the
\* only sheet when written.
C3_Placeholder ==
  pc = "done" =>
    LET month == \E s \in DOMAIN sheets : IsMonthSheet(sheets[s])
        nodate == \E s \in DOMAIN sheets : IsNoDateSheet(sheets[s])
        placeholder == \E s \in DOMAIN sheets : IsPlaceholder(sheets[s])
    IN /\ sheets # <<>>
       /\ placeholder <=> (~month /\ ~nodate)
       /\ ~nodate <=> (~include_no_date_sheet \/ df_no_date.rows = <<>>)
       /\ placeholder => Len(sheets) = 1

\* C3 witness: a table with a row, none dated, option off: Keine_Daten alone.
C3_Witness ==
  /\ pc = "done"
  /\ df_prepared.rows # <<>>
  /\ HasColumn(df_prepared, "Geburtsdatum")
  /\ ~include_no_date_sheet
  /\ Len(sheets) = 1
  /\ IsPlaceholder(sheets[1])

\* the membership column a sheet's role rules are for: the first of the
\* known labels in a month sheet, the label Mitgliedschaft in the other
MembershipLabel(sh) ==
  IF IsMonthSheet(sh)
  THEN SelectSeq(<<"Mitgliedschaft", "mitgliedschaft", "Mitglied", "mitglied">>,
                 LAMBDA c : In(c, sh.columns))
  ELSE SelectSeq(<<"Mitgliedschaft">>, LAMBDA c : In(c, sh.columns))

MembershipCell(sh, r) == sh.rows[r].cells[Positions(sh.columns, MembershipLabel(sh)[1])[1]]

\* the cell holds a role with exactly its capitalisation
HasRole(cell) ==
  cell.k = "str" /\ \E i \in DOMAIN rollen : contains(Chars(rollen[i]), Chars(cell.s))

\* the cell holds a role, but only with another capitalisation
HasRoleInOtherCaseOnly(cell) ==
  /\ cell.k = "str"
  /\ ~HasRole(cell)
  /\ \E i \in DOMAIN rollen : contains(lower(Chars(rollen[i])), lower(Chars(cell.s)))

\* C4: a data row is highlighted when its membership cell holds one of the
\* roles with exactly that capitalisation, and is not when the cell holds a
\* role only in another capitalisation.
C4_CaseSensitiveRole ==
  pc = "done" =>
    \A s \in DOMAIN sheets :
      LET sh == sheets[s]
      IN (~IsPlaceholder(sh) /\ MembershipLabel(sh) # <<>>) =>
           \A r \in DOMAIN sh.rows :
             /\ HasRole(MembershipCell(sh, r)) =>
                  \A c \in Cols0(sh) : yellow(sh, r, c)
             /\ HasRoleInOtherCaseOnly(MembershipCell(sh, r)) =>
                  \A c \in Cols0(sh) : ~yellow(sh, r, c)

\* C5: in a month sheet with the age column, a cell of a data row is green
\* exactly if it is an age cell holding a multiple of 10; no other column
\* is touched.
C5_RoundBirthday ==
  pc = "done" =>
    \A s \in DOMAIN sheets :
      LET sh == sheets[s]
      IN (IsMonthSheet(sh) /\ In(AlterCol(target_year), sh.columns)) =>
           \A r \in DOMAIN sh.rows : \A c \in Cols0(sh) :
             green(sh, r, c) <=>
               /\ sh.columns[c + 1] = AlterCol(target_year)
               /\ sh.rows[r].cells[c + 1].k = "num"
               /\ sh.rows[r].cells[c + 1].n % 10 = 0

\* C5 for the tables whose labels are distinct after normalization.
C5_RoundBirthdayDistinctLabels ==
  (pc = "done" /\ Distinct(df_prepared.columns)) =>
    \A s \in DOMAIN sheets :
      LET sh == sheets[s]
      IN (IsMonthSheet(sh) /\ In(AlterCol(target_year), sh.columns)) =>
           \A r \in DOMAIN sh.rows : \A c \in Cols0(sh) :
             green(sh, r, c) <=>
               /\ sh.columns[c + 1] = AlterCol(target_year)
               /\ sh.rows[r].cells[c + 1].k = "num"
               /\ sh.rows[r].cells[c + 1].n % 10 = 0

\* C6: in the normalized table the dated rows are in (month, day) order,
\* whatever their years, and every row without a birth date comes after all
\* dated rows.
C6_DateOrder ==
  pc # "uploaded" =>
    \A i, j \in DOMAIN df_prepared.rows :
      i < j =>
        /\ (notna(Birth(i)) /\ notna(Birth(j))) => MonthDayLeq(Birth(i), Birth(j))
        /\ isna(Birth(i)) => isna(Birth(j))

\* C6 witness: the sort moved a row up past a row that was uploaded before
\* it and was born in an earlier year but later in the year.
C6_Witness ==
  /\ pc = "prepared"
  /\ \E i, j \in DOMAIN df_prepared.rows :
       /\ i < j
       /\ df_prepared.rows[i].rid > df_prepared.rows[j].rid
       /\ notna(Birth(i)) /\ notna(Birth(j))
       /\ Birth(i).y > Birth(j).y
       /\ ~MonthDayLeq(Birth(j), Birth(i))

\* C7: the sorts are stable: dated rows with one (month, day) keep their
\* uploaded order in the normalized table, and rows of a month sheet with
\* one day keep their order of the normalized table.
C7_Stable ==
  /\ pc # "uploaded" =>
       \A i, j \in DOMAIN df_prepared.rows :
         (/\ i < j
          /\ notna(Birth(i)) /\ notna(Birth(j))
          /\ Birth(i).m = Birth(j).m /\ Birth(i).d = Birth(j).d)
           => df_prepared.rows[i].rid < df_prepared.rows[j].rid
  /\ pc = "done" =>
       \A s \in DOMAIN sheets :
         IsMonthSheet(sheets[s]) =>
           \A i, j \in DOMAIN sheets[s].rows :
             LET pi == PlaceOf(sheets[s].rows[i].rid)
                 pj == PlaceOf(sheets[s].rows[j].rid)
             IN (i < j /\ Birth(pi).d = Birth(pj).d) => pi < pj

\* the labels the rename map makes, and the cells of the row rid under
\* label c
Canonical == {"Strasse", "PLZ", "Ort", "Korrespondenzsprache"}
CellsUnder(df, c, rid) ==
  LET r == CHOOSE q \in DOMAIN df.rows : df.rows[q].rid = rid
  IN Take(df.rows[r].cells, Positions(df.columns, c))

\* C8: distinct labels stay distinct, and a canonical column of the upload
\* is still there alone with its cells.
C8_NoDuplicateLabels ==
  (pc # "uploaded" /\ Distinct(df_raw.columns)) =>
    /\ Distinct(df_prepared.columns)
    /\ \A c \in Canonical :
         HasColumn(df_raw, c) =>
           \A r \in DOMAIN df_raw.rows :
             CellsUnder(df_prepared, c, df_raw.rows[r].rid)
               = CellsUnder(df_raw, c, df_raw.rows[r].rid)

\* C9: the age of a row is target_year minus the birth year exactly when
\* the birth date parsed and is null otherwise; a row without a birth date
\* is in the undated group and in no month sheet.
C9_Age ==
  pc = "done" =>
    \A r \in DOMAIN df_prepared.rows :
      /\ notna(Birth(r)) => Age(r) = Num(target_year - Birth(r).y)
      /\ isna(Birth(r)) =>
           /\ isna(Age(r))
           /\ InNoDateGroup(df_prepared.rows[r].rid)
           /\ ~InMonthSheet(df_prepared.rows[r].rid)

\* C9 for the tables that have the birth date column.
C9_AgeWithColumn ==
  (pc = "done" /\ HasColumn(df_prepared, "Geburtsdatum")) =>
    \A r \in DOMAIN df_prepared.rows :
      /\ notna(Birth(r)) => Age(r) = Num(target_year - Birth(r).y)
      /\ isna(Birth(r)) =>
           /\ isna(Age(r))
           /\ InNoDateGroup(df_prepared.rows[r].rid)
           /\ ~InMonthSheet(df_prepared.rows[r].rid)

\* the preferred order of a month sheet, with the found columns in place
Preferred ==
  <<"Vorname", "Nachname", "Geburtsdatum (TT.MM.JJJJ)", "Firma", "Strasse",
    "PLZ", "Ort">>
  \o find_corr_lang_col(df_prepared)
  \o <<AlterCol(target_year)>>
  \o find_mitgliedschaft_col(df_prepared)

\* C10: the columns of a month sheet are the preferred list cut down to the
\* columns the data has, each once.
C10_MonthSheetColumns ==
  pc = "done" =>
    \A s \in DOMAIN sheets :
      IsMonthSheet(sheets[s]) =>
        /\ Distinct(sheets[s].columns)
        /\ sheets[s].columns =
             SelectSeq(Preferred,
                       LAMBDA c : \/ c = "Geburtsdatum (TT.MM.JJJJ)"
                                  \/ HasColumn(df_prepared, c))

\* C10 for the tables whose labels are distinct after normalization.
C10_MonthSheetColumnsDistinctLabels ==
  (pc = "done" /\ Distinct(df_prepared.columns)) =>
    \A s \in DOMAIN sheets :
      IsMonthSheet(sheets[s]) =>
        /\ Distinct(sheets[s].columns)
        /\ sheets[s].columns =
             SelectSeq(Preferred,
                       LAMBDA c : \/ c = "Geburtsdatum (TT.MM.JJJJ)"
                                  \/ HasColumn(df_prepared, c))

\* the keys of the returned statistics, and the count under a key
StatKeys == {s[1] : s \in stats}
Stat(k) == (CHOOSE s \in stats : s[1] = k)[2]

\* the first name of row r of the normalized table; no column, no value
FirstName(r) ==
  IF HasColumn(df_prepared, "Vorname")
  THEN Column(df_prepared, "Vorname")[r] ELSE NaN

\* C11: the statistics are those of the whole normalized table, whatever
\* include_no_date_sheet is and whichever sheets are written: each key has one
\* count; anzahl_namen is there exactly when the table has a Vorname column
\* and counts the rows with a first name; anzahl_geburtsdaten and
\* anzahl_fehlende_geburtsdaten are there exactly when the table has a
\* Geburtsdatum column, count the rows with and without a parsed birth date,
\* and add up to the number of rows of the table, which is that of the upload.
C11_Statistics ==
  pc = "done" =>
    /\ \A s, t \in stats : s[1] = t[1] => s = t
    /\ StatKeys \subseteq {"anzahl_namen", "anzahl_geburtsdaten",
                           "anzahl_fehlende_geburtsdaten"}
    /\ "anzahl_namen" \in StatKeys <=> HasColumn(df_prepared, "Vorname")
    /\ "anzahl_namen" \in StatKeys =>
         Stat("anzahl_namen")
           = Cardinality({r \in DOMAIN df_prepared.rows : notna(FirstName(r))})
    /\ "anzahl_geburtsdaten" \in StatKeys <=> HasColumn(df_prepared, "Geburtsdatum")
    /\ "anzahl_fehlende_geburtsdaten" \in StatKeys
         <=> HasColumn(df_prepared, "Geburtsdatum")
    /\ HasColumn(df_prepared, "Geburtsdatum") =>
         /\ Stat("anzahl_geburtsdaten")
              = Cardinality({r \in DOMAIN df_prepared.rows : Birth(r).k = "ts"})
         /\ Stat("anzahl_fehlende_geburtsdaten")
              = Cardinality({r \in DOMAIN df_prepared.rows : Birth(r).k = "null"})
         /\ Stat("anzahl_geburtsdaten") + Stat("anzahl_fehlende_geburtsdaten")
              = Len(df_prepared.rows)
         /\ Len(df_prepared.rows) = Len(df_raw.rows)

\* C11: a workbook built without the undated sheet from a table with a dated
\* row, an undated row and a row without first name; the undated row is on no
\* sheet and is counted all the same.
C11_Witness ==
  /\ pc = "done"
  /\ ~include_no_date_sheet
  /\ HasColumn(df_prepared, "Vorname")
  /\ HasColumn(df_prepared, "Geburtsdatum")
  /\ \A s \in DOMAIN sheets : ~IsNoDateSheet(sheets[s])
  /\ \E r \in DOMAIN df_prepared.rows : isna(FirstName(r))
  /\ Stat("anzahl_namen") < Len(df_prepared.rows)
  /\ Stat("anzahl_geburtsdaten") > 0
  /\ Stat("anzahl_fehlende_geburtsdaten") > 0
====
